---- MODULE Spec2Model ----
(***************************************************************************)
(* Model of the request orchestration engine of imagor (src/imagor.go):    *)
(* ServeHTTP -> Do -> suppress("res:"+resultKey) -> loadStorage ->         *)
(* suppress("img:"+key) -> load / save / del, with the processing          *)
(* semaphore and the singleflight group shared by all requests.            *)
(*                                                                         *)
(* Goroutines of one request r:                                            *)
(*   - the caller (ServeHTTP / Do / the select of suppress), position pc;  *)
(*   - the flight function of Do run by singleflight.DoChan when r leads   *)
(*     the "res:" flight (slot 0), position fpc;                           *)
(*   - the flight functions of loadStorage that r's Do closure leads       *)
(*     (slot 1 the source image, slots 2.. the processors' loadFn calls).  *)
(***************************************************************************)
EXTENDS Integers, Sequences, FiniteSets, TLC

\* ---------------------------------------------------------------- bounds
NReq == 2          \* concurrent HTTP requests
NImages == 2       \* distinct image keys
MaxAux == 1        \* loadFn calls a Do closure makes from its processors
MaxHandlers == 2   \* storages, and loaders, of a load examined on its own
MaxTime == 2       \* modification times the storages report

Reqs == 1..NReq
Images == 1..NImages
\* the empty string as an image key (key == "")
EmptyImage == 0
AllImages == Images \cup {EmptyImage}
ResSlot == 0
MainSlot == 1
Slots == 0..(MainSlot + MaxAux)

\* ---------------------------------------------------------------- errors
NoErr == "nil"
ErrPass == "ErrPass"
ErrNotFound == "ErrNotFound"
ErrSignatureMismatch == "ErrSignatureMismatch"
ErrInternal == "ErrInternal"
Canceled == "context.Canceled"
DeadlineExceeded == "context.DeadlineExceeded"

\* ----------------------------------------------------------------- blobs
\* A blob is nil, empty (a non-nil blob without bytes, carrying Meta in
\* meta mode) or non-empty: "src" as a loader or storage returned it, "pass"
\* handed on by a processor with ErrPass, "proc" the output of a processor
\* that succeeded ("procmeta" when its Params asked for the metadata).  key
\* is the image it belongs to.
Blob(kind, key) == [kind |-> kind, key |-> key]
NilBlob == Blob("nil", 0)
MetaBlob(key) == Blob("meta", key)
isBlobEmpty(b) == b.kind \in {"nil", "meta"}

\* ----------------------------------------------------------------- params
\* imagorpath.Params as far as Do reads it.  Path is the canonical path as a
\* sequence of segments; Hash is what the URL carried.
Secret == "1234"
Sign(secret, path) == <<"hmac", secret, path>>
NoHash == <<>>
MetaSeg == <<"meta/">>
ImageSeg(image) == <<"image", image>>
PathOf(meta, image) == IF meta THEN <<MetaSeg, ImageSeg(image)>> ELSE <<ImageSeg(image)>>
Params(unsafe, hash, meta, image) ==
    [Unsafe |-> unsafe, Hash |-> hash, Meta |-> meta, Image |-> image,
     Path |-> PathOf(meta, image)]
NoParams == Params(FALSE, NoHash, FALSE, 0)
\* the URLs the clients send: /unsafe/<path>, /<good hash>/<path>, /<path>,
\* with meta/ in front of the path for the meta variant
UnsafeUrl(meta, image) == Params(TRUE, NoHash, meta, image)
SignedUrl(meta, image) == Params(FALSE, Sign(Secret, PathOf(meta, image)), meta, image)
UnsignedUrl(meta, image) == Params(FALSE, NoHash, meta, image)

\* --------------------------------------------------------- configuration
\* The options New() was called with, and the workload.  nStor/nLoad/nRes/
\* nProc are the lengths of Storages, Loaders, ResultStorages and Processors;
\* conc is ProcessConcurrency (0: no semaphore); nAux is the number of
\* loadFn calls the processors make for one request.  Workload: seq, the
\* clients send their requests one after another (as the tests other than
\* TestSuppression do) rather than concurrently; events, clients may go away
\* and RequestTimeout may fire; urls, the URLs the clients send.  mtc is
\* ModifiedTimeCheck, off unless set.
Config(unsafe, nStor, nLoad, nRes, nProc, conc, nAux, seq, events, urls) ==
    [Unsafe |-> unsafe, nStor |-> nStor, nLoad |-> nLoad, nRes |-> nRes,
     nProc |-> nProc, conc |-> conc, nAux |-> nAux, seq |-> seq,
     events |-> events, urls |-> urls, mtc |-> FALSE]
\* storages, loaders, result storages, processors and a semaphore
CfgFull ==
    Config(TRUE, 1, 1, 1, 2, 1, 0, TRUE, TRUE,
           {UnsafeUrl(FALSE, 1), UnsafeUrl(TRUE, 1), UnsignedUrl(FALSE, 1)})
\* TestWithLoadersStorages, and a request whose image key is empty
CfgStore ==
    Config(TRUE, 1, 1, 0, 0, 0, 0, TRUE, TRUE,
           {UnsafeUrl(FALSE, i) : i \in AllImages} \cup {UnsafeUrl(TRUE, 1)})
\* TestWithSecret, with a loader and a result storage
CfgSigned ==
    Config(FALSE, 0, 1, 1, 0, 0, 0, TRUE, TRUE,
           {SignedUrl(FALSE, 1), SignedUrl(TRUE, 1), UnsafeUrl(FALSE, 1),
            UnsignedUrl(FALSE, 1), UnsignedUrl(TRUE, 1)})
\* TestWithUnsafe
CfgBare ==
    Config(TRUE, 0, 0, 0, 0, 0, 0, TRUE, TRUE,
           {UnsafeUrl(FALSE, 1), SignedUrl(FALSE, 1), UnsignedUrl(FALSE, 1)})
\* a processor that loads further images, one request at a time
CfgAux ==
    Config(TRUE, 0, 1, 0, 1, 1, MaxAux, TRUE, TRUE, {UnsafeUrl(FALSE, 1)})
\* TestSuppression: concurrent requests, a loader
CfgFlight ==
    Config(TRUE, 0, 1, 0, 0, 0, 0, FALSE, TRUE,
           {UnsafeUrl(FALSE, 1), UnsafeUrl(TRUE, 1)})
\* concurrent requests, a loader, a processor and one permit
CfgConc ==
    Config(TRUE, 0, 1, 0, 1, 1, 0, FALSE, TRUE,
           {UnsafeUrl(FALSE, i) : i \in Images})
\* concurrent requests whose processor loads further images
CfgLoadFn ==
    Config(TRUE, 0, 1, 0, 1, 1, MaxAux, FALSE, FALSE,
           {UnsafeUrl(FALSE, i) : i \in Images})
\* WithModifiedTimeCheck(true): two storages, a loader, a result storage
\* and a processor
CfgFresh ==
    [Config(TRUE, 2, 1, 1, 1, 0, 0, TRUE, FALSE,
            {UnsafeUrl(FALSE, 1), UnsafeUrl(TRUE, 1)}) EXCEPT !.mtc = TRUE]
\* concurrent requests for both variants of one image: a loader, a result
\* storage and a processor
CfgMeta ==
    Config(TRUE, 0, 1, 1, 1, 0, 0, FALSE, FALSE,
           {UnsafeUrl(FALSE, 1), UnsafeUrl(TRUE, 1)})
\* concurrent requests, a storage, a loader and a processor that loads
\* further images
CfgShare ==
    Config(TRUE, 1, 1, 0, 1, 0, MaxAux, FALSE, FALSE,
           {UnsafeUrl(FALSE, i) : i \in Images})
\* concurrent requests that contend for one permit, a loader
CfgGate ==
    Config(TRUE, 0, 1, 0, 0, 1, 0, FALSE, TRUE,
           {UnsafeUrl(FALSE, i) : i \in Images})
Configs == {CfgFull, CfgStore, CfgSigned, CfgBare, CfgAux, CfgFlight, CfgConc,
            CfgLoadFn, CfgFresh, CfgMeta, CfgShare, CfgGate}

\* strings.TrimPrefix(p.Path, "meta/")
TrimPrefixMeta(path) ==
    IF Len(path) > 0 /\ Head(path) = MetaSeg THEN Tail(path) ELSE path
ResultKeyOf(q) == TrimPrefixMeta(q.Path)
ResultKeys == { <<ImageSeg(i)>> : i \in AllImages }
ResKey(q) == <<"res:">> \o ResultKeyOf(q)
\* source loads keyed in the namespace of the results
ImgKeyShared(image) == <<"res:", ImageSeg(image)>>
ImgKey(image) == <<"img:", image>>
Keys == { <<"res:">> \o k : k \in ResultKeys } \cup { ImgKey(i) : i \in AllImages }

\* a gate that lets a request through when either side says unsafe
SignatureMismatchEither(c, q) ==
    ~(c.Unsafe \/ q.Unsafe) /\ Sign(Secret, q.Path) # q.Hash
\* the signature gate of Do; New() always installs a Signer
SignatureMismatch(c, q) ==
    ~(c.Unsafe /\ q.Unsafe) /\ Sign(Secret, q.Path) # q.Hash

\* ---------------------------------------------------------------- flights
\* A call of singleflight: its state, key and result, the isCanceled flag of
\* the suppress call that leads it, and (for "img:") the isSave variable of
\* the loadStorage call that leads it.
NoFlight == <<0, 0>>
FlightIds == Reqs \X Slots
Flight(st, key, val, err, isCanceled, saved) ==
    [st |-> st, key |-> key, val |-> val, err |-> err,
     isCanceled |-> isCanceled, saved |-> saved]
IdleFlight == Flight("none", <<>>, NilBlob, NoErr, FALSE, FALSE)

VARIABLES
    cfg,      \* the engine's configuration
    stor,     \* Storages: sequence of maps image -> blob (NilBlob: absent)
    rstor,    \* ResultStorages: sequence of maps result key -> blob
    semaCur,  \* app.sema: permits in use
    g,        \* app.g: singleflight map, key -> flight in it (or NoFlight)
    fl,       \* the calls of singleflight that are running or still awaited
    ctx,      \* each request's context
    p,        \* each request's Params
    pc,       \* the caller: "idle", "wait" (select in suppress), "ret", "done"
    cw,       \* the flight whose channel the caller selects on
    doBlob,   \* Do's named result blob, shared with its closure
    doErr,    \* Do's named result err, shared with its closure
    resp,     \* what ServeHTTP wrote
    fpc,      \* the Do closure (flight function of "res:"): its position
    fw,       \* the "img:" flight whose channel the Do closure selects on
    fi,       \* index of the processor the Do closure is at
    holds,    \* the Do closure holds a permit (defer Release registered)
    isSave,   \* isSave as loadStorage returned it to the Do closure
    aux,      \* loadFn calls made by the Do closure's processors
    hist      \* the calls the step just taken made on the storages

vars == <<cfg, stor, rstor, semaCur, g, fl, ctx, p, pc, cw, doBlob, doErr,
          resp, fpc, fw, fi, holds, isSave, aux, hist>>

\* ------------------------------------------------------------- contexts
\* a context whose deadline reads as a cancellation
CtxErrCanceled(c) == IF c = "alive" THEN NoErr ELSE Canceled
\* ctx.Err() of a request context: nil while alive
CtxErr(c) == IF c = "canceled" THEN Canceled
             ELSE IF c = "expired" THEN DeadlineExceeded ELSE NoErr
\* a select without the <-ctx.Done() case
FiredNever(r) == FALSE
\* ctx.Done() of request r is closed
Fired(r) == ctx[r] # "alive"

\* ----------------------------------------------------- the load pipeline
Out(blob, err) == [blob |-> blob, err |-> err]

\* loops that go on to the next handler after one has succeeded
RECURSIVE ScanHandlersOn(_, _, _)
ScanHandlersOn(outs, i, acc) ==
    IF i > Len(outs) THEN acc
    ELSE LET b == outs[i].blob
             e == outs[i].err
         IN ScanHandlersOn(outs, i + 1,
                IF ~isBlobEmpty(b) /\ e = NoErr
                THEN [blob |-> b, err |-> NoErr, hit |-> i]
                ELSE [blob |-> IF ~isBlobEmpty(b) THEN b ELSE acc.blob,
                      err |-> e, hit |-> 0])
\* the two loops of Imagor.load over Get results (after checkBlob), from
\* handler i on: acc carries blob, err and the index of the handler that
\* returned a non-empty blob without error (0: none)
RECURSIVE ScanHandlers(_, _, _)
ScanHandlers(outs, i, acc) ==
    IF i > Len(outs) THEN acc
    ELSE LET b == outs[i].blob
             e == outs[i].err
         IN IF ~isBlobEmpty(b) /\ e = NoErr
            THEN [blob |-> b, err |-> NoErr, hit |-> i]
            ELSE ScanHandlers(outs, i + 1,
                     [blob |-> IF ~isBlobEmpty(b) THEN b ELSE acc.blob,
                      err |-> e, hit |-> 0])

\* the metaMode loop of Imagor.load over Meta results: outs[i].blob is the
\* empty blob carrying the meta, or NilBlob when Meta returned nil
RECURSIVE ScanMeta(_, _, _)
ScanMeta(outs, i, acc) ==
    IF i > Len(outs) THEN acc
    ELSE IF outs[i].err = NoErr /\ outs[i].blob # NilBlob
         THEN [blob |-> outs[i].blob, err |-> NoErr, hit |-> i]
         ELSE ScanMeta(outs, i + 1, [blob |-> acc.blob, err |-> outs[i].err, hit |-> 0])

\* a load that returns whatever its loops left in err
FinalErrKept(blob, err, metaMode) == err
\* the final error policy of Imagor.load, behind the loops
FinalErr(blob, err, metaMode) ==
    IF err = NoErr /\ isBlobEmpty(blob) /\ ~metaMode THEN ErrNotFound ELSE err

\* Imagor.load: (blob, origin, err); origin is the index of the storage that
\* served the blob, 0 for nil; calls is the number of handlers it called
Load(sOuts, lOuts, emptyKey, metaMode) ==
    IF emptyKey
    THEN [blob |-> NilBlob, origin |-> 0, err |-> ErrNotFound, calls |-> 0]
    ELSE IF metaMode
    THEN LET m == ScanMeta(sOuts, 1, [blob |-> NilBlob, err |-> NoErr, hit |-> 0])
         IN IF m.hit # 0
            THEN [blob |-> m.blob, origin |-> m.hit, err |-> NoErr, calls |-> m.hit]
            ELSE [blob |-> m.blob, origin |-> 0,
                  err |-> FinalErr(m.blob, m.err, metaMode), calls |-> Len(sOuts)]
    ELSE LET a == ScanHandlers(sOuts, 1, [blob |-> NilBlob, err |-> NoErr, hit |-> 0])
         IN IF a.hit # 0
            THEN [blob |-> a.blob, origin |-> a.hit, err |-> NoErr, calls |-> a.hit]
            ELSE LET b == ScanHandlers(lOuts, 1, a)
                 IN IF b.hit # 0
                    THEN [blob |-> b.blob, origin |-> 0, err |-> NoErr,
                          calls |-> Len(sOuts) + b.hit]
                    ELSE [blob |-> b.blob, origin |-> 0,
                          err |-> FinalErr(b.blob, b.err, metaMode),
                          calls |-> Len(sOuts) + Len(lOuts)]

\* a save-back that does not look at the origin
ShouldSaveAnyOrigin(c, res) ==
    res.err = NoErr /\ ~isBlobEmpty(res.blob) /\ c.nStor > 0
\* the condition of loadStorage's closure for the save-back
ShouldSave(c, res) ==
    res.err = NoErr /\ ~isBlobEmpty(res.blob) /\ res.origin = 0 /\ c.nStor > 0

\* ------------------------------------------------------- loadResult
\* What Storage.Stat returns: (stat, err), stat nil (NoTime) or carrying
\* ModifiedTime.
NoTime == 0
Times == 1..MaxTime
Stat(time, err) == [time |-> time, err |-> err]
NoStat == Stat(NoTime, NoErr)
StatOuts ==
    {Stat(t, NoErr) : t \in Times} \cup {Stat(t, ErrInternal) : t \in Times}
    \cup {Stat(NoTime, ErrNotFound), NoStat}
\* the Stat results the engine may get: none is asked for without
\* ModifiedTimeCheck
StatChoices(c) == IF c.mtc THEN StatOuts ELSE {NoStat}
StatSeqs(c) == [1..c.nStor -> StatChoices(c)]
\* stat != nil && err == nil
StatOk(s) == s.time # NoTime /\ s.err = NoErr
\* Imagor.storageStat over the Stat results of app.Storages, from i on
RECURSIVE StorageStat(_, _, _)
StorageStat(stats, i, last) ==
    IF i > Len(stats) THEN last
    ELSE IF StatOk(stats[i]) THEN stats[i]
         ELSE StorageStat(stats, i + 1, stats[i])
\* a comparison that also rejects a result as old as its source
BeforeOrEqual(a, b) == a <= b
\* time.Time.Before
Before(a, b) == a < b
\* Imagor.loadResult given what load returned (res) and the Stat results of
\* the origin (rStat) and of the source storages (sStats): the blob, or
\* NilBlob for nil
LoadResult(c, res, metaMode, rStat, sStats) ==
    IF res.err = NoErr /\ (~isBlobEmpty(res.blob) \/ metaMode)
    THEN IF c.mtc /\ res.origin # 0
         THEN IF StatOk(rStat)
              THEN LET sourceStat == StorageStat(sStats, 1, NoStat)
                   IN IF StatOk(sourceStat) /\ ~Before(rStat.time, sourceStat.time)
                      THEN res.blob ELSE NilBlob
              ELSE NilBlob
         ELSE res.blob
    ELSE NilBlob
\* hist.probe: the result-cache hit loadResult just judged
NoProbe == [ran |-> FALSE, req |-> 0, rStat |-> NoStat, sStats |-> <<>>,
            accepted |-> FALSE]
Probed(r, res, metaMode, rStat, sStats, blob) ==
    IF res.err = NoErr /\ (~isBlobEmpty(res.blob) \/ (metaMode /\ res.blob # NilBlob))
    THEN [ran |-> TRUE, req |-> r, rStat |-> rStat, sStats |-> sStats,
          accepted |-> blob # NilBlob]
    ELSE NoProbe

\* ----------------------------------------------------- the collaborators
\* What a storage's Get can return for a key: the stored blob, ErrNotFound
\* when it has none, or the context's error once the context has fired.
StorageGetOuts(m, key, c) ==
    (IF m[key] # NilBlob THEN {Out(m[key], NoErr)} ELSE {Out(NilBlob, ErrNotFound)})
    \cup (IF c # "alive" THEN {Out(NilBlob, CtxErr(c))} ELSE {})
\* Storage.Meta: the sidecar of a stored blob
StorageMetaOuts(m, key, c) ==
    (IF m[key] # NilBlob THEN {Out(MetaBlob(key[1][2]), NoErr)} ELSE {Out(NilBlob, ErrNotFound)})
    \cup (IF c # "alive" THEN {Out(NilBlob, CtxErr(c))} ELSE {})
\* What a loader's Get can return: bytes, a pass, the load timeout, or the
\* context's error once the context has fired.
LoaderOuts(key, c) ==
    {Out(Blob("src", key), NoErr), Out(NilBlob, ErrPass),
     Out(NilBlob, DeadlineExceeded)}
    \cup (IF c # "alive" THEN {Out(NilBlob, CtxErr(c))} ELSE {})
\* the Get results of a list of storages / loaders
StorageOutSeqs(stores, key, c) ==
    { f \in [1..Len(stores) -> UNION { StorageGetOuts(stores[i], key, c) : i \in 1..Len(stores) }] :
        \A i \in 1..Len(stores) : f[i] \in StorageGetOuts(stores[i], key, c) }
StorageMetaSeqs(stores, key, c) ==
    { f \in [1..Len(stores) -> UNION { StorageMetaOuts(stores[i], key, c) : i \in 1..Len(stores) }] :
        \A i \in 1..Len(stores) : f[i] \in StorageMetaOuts(stores[i], key, c) }
LoaderOutSeqs(n, key, c) == [1..n -> LoaderOuts(key, c)]
\* Put / Delete succeed under a live context and may fail under a fired one
PutOks(c) == IF c = "alive" THEN {TRUE} ELSE BOOLEAN
\* Imagor.save / Imagor.del on a list of storages
SaveAll(stores, key, blob, ok) ==
    [i \in 1..Len(stores) |-> IF ok THEN [stores[i] EXCEPT ![key] = blob] ELSE stores[i]]
DelAll(stores, key, ok) ==
    [i \in 1..Len(stores) |-> IF ok THEN [stores[i] EXCEPT ![key] = NilBlob] ELSE stores[i]]

\* ------------------------------------------------------------ responses
\* WrapError(err).Code
StatusOf(err) ==
    CASE err = ErrSignatureMismatch -> 403
      [] err = ErrNotFound -> 404
      [] err = DeadlineExceeded -> 408
      [] err = ErrPass -> 400
      [] OTHER -> 500
HasMeta(b) == b.kind \in {"meta", "proc", "procmeta"}
\* what ServeHTTP writes for the (blob, err) Do returned
Respond(q, blob, err) ==
    IF err = NoErr /\ q.Meta /\ blob # NilBlob /\ HasMeta(blob)
    THEN [status |-> 200, body |-> "meta", blob |-> blob, err |-> err]
    ELSE IF err # NoErr
    THEN IF err = Canceled
         THEN [status |-> 499, body |-> "none", blob |-> blob, err |-> err]
         ELSE IF ~isBlobEmpty(blob)
              THEN [status |-> StatusOf(err), body |-> "blob", blob |-> blob, err |-> err]
              ELSE [status |-> StatusOf(err), body |-> "error", blob |-> blob, err |-> err]
    ELSE IF isBlobEmpty(blob)
         THEN [status |-> 200, body |-> "none", blob |-> blob, err |-> err]
         ELSE [status |-> 200, body |-> "blob", blob |-> blob, err |-> err]
NoResp == [status |-> 0, body |-> "none", blob |-> NilBlob, err |-> NoErr]


\* --------------------------------------------------------- singleflight
\* a group that never finds a call in its map
InFlightNone(key) == NoFlight
\* g.m[key] as DoChan looks it up
InFlight(key) == g[key]
Leads(key) == InFlight(key) = NoFlight
\* DoChan(key, fn) called by the goroutine whose own call would be fid: the
\* call whose channel it gets, and the map afterwards
DoChanCall(key, fid) == IF Leads(key) THEN fid ELSE InFlight(key)
\* a DoChan that does not record the call it starts
DoChanMapLost(key, fid) == g
DoChanMap(key, fid) == IF Leads(key) THEN [g EXCEPT ![key] = fid] ELSE g
NewFlight(key) == Flight("running", key, NilBlob, NoErr, FALSE, FALSE)
\* a wrapper that forgets the key on either error of a context
ForgetsCtxErr(err) == err \in {Canceled, DeadlineExceeded}
\* the closure suppress hands to DoChan, after fn returned err: Forget(key)
\* and isCanceled = true on a cancellation error
Forgets(err) == err = Canceled
\* the map after that closure and doCall's cleanup, which deletes the key if
\* the map still holds this call before it sends the result
AfterFlight(key, fid, err) ==
    LET forgot == IF Forgets(err) THEN [g EXCEPT ![key] = NoFlight] ELSE g
    IN IF forgot[key] = fid THEN [forgot EXCEPT ![key] = NoFlight] ELSE forgot
Delivered(key, val, err, saved) == Flight("delivered", key, val, err, Forgets(err), saved)
\* a select that hands on whatever the flight delivered
RetriesNever(own, res) == FALSE
\* the select of suppress on a delivered result: retry iff this call's own
\* isCanceled is false and the result is a cancellation error
Retries(own, res) == ~(own /\ res.isCanceled) /\ res.err = Canceled

\* a goroutine still selects on the channel of call f (in the next state)
Awaited(f) ==
    \/ \E r \in Reqs : pc'[r] = "wait" /\ cw'[r] = f
    \/ \E r \in Reqs : fpc'[r] \in {"waitImg", "waitAux"} /\ fw'[r] = f
\* the calls afterwards: F, without the delivered calls nobody awaits
Settle(F) ==
    fl' = [f \in FlightIds |->
             IF F[f].st = "delivered" /\ ~Awaited(f) THEN IdleFlight ELSE F[f]]

\* ------------------------------------------------------------------ Init
\* hist.load: what the loadStorage closure that just ran observed (ran,
\* the storage index of the blob's origin, load succeeded with bytes, Puts
\* made, the image key, the error of load and the handlers load called);
\* hist.rput: the kind of blob just Put to the result storages; hist.del:
\* the Delete calls just made on the storages; hist.proc: the call of
\* Process that just returned (the request, the processor's index, the blob
\* it was given and what it returned)
NoLoad == [ran |-> FALSE, origin |-> 0, clean |-> FALSE, puts |-> 0,
           key |-> EmptyImage, err |-> NoErr, calls |-> 0]
NoProc == [ran |-> FALSE, req |-> 0, i |-> 0, inp |-> NilBlob,
           out |-> Out(NilBlob, NoErr)]
\* hist.call: a call of Imagor.load examined on its own (what the storages
\* and loaders returned, the key being empty, and the result)
NoCall == [ran |-> FALSE, sOuts |-> <<>>, lOuts |-> <<>>, emptyKey |-> FALSE,
           res |-> [blob |-> NilBlob, origin |-> 0, err |-> NoErr, calls |-> 0]]
\* hist.got: the source image loadStorage just returned to the Do closure
\* of req (this call led the flight; the flight made the save-back);
\* hist.sctx: the context just handed to save or del by the Do closure
NoGot == [req |-> 0, led |-> FALSE, saved |-> FALSE]
NoCalls == [load |-> NoLoad, rput |-> "none", del |-> 0, proc |-> NoProc,
            call |-> NoCall, probe |-> NoProbe, got |-> NoGot, sctx |-> "none"]
Init ==
    /\ cfg \in Configs
    /\ stor = [i \in 1..cfg.nStor |-> [k \in AllImages |-> NilBlob]]
    /\ rstor = [i \in 1..cfg.nRes |-> [k \in ResultKeys |-> NilBlob]]
    /\ semaCur = 0
    /\ g = [k \in Keys |-> NoFlight]
    /\ fl = [f \in FlightIds |-> IdleFlight]
    /\ ctx = [r \in Reqs |-> "alive"]
    /\ p = [r \in Reqs |-> NoParams]
    /\ pc = [r \in Reqs |-> "idle"]
    /\ cw = [r \in Reqs |-> NoFlight]
    /\ doBlob = [r \in Reqs |-> NilBlob]
    /\ doErr = [r \in Reqs |-> NoErr]
    /\ resp = [r \in Reqs |-> NoResp]
    /\ fpc = [r \in Reqs |-> "none"]
    /\ fw = [r \in Reqs |-> NoFlight]
    /\ fi = [r \in Reqs |-> 0]
    /\ holds = [r \in Reqs |-> FALSE]
    /\ isSave = [r \in Reqs |-> FALSE]
    /\ aux = [r \in Reqs |-> 0]
    /\ hist = NoCalls

\* ------------------------------------------------------ context events
\* the client goes away
Cancel(r) ==
    /\ cfg.events
    /\ pc[r] = "wait" /\ ctx[r] = "alive"
    /\ ctx' = [ctx EXCEPT ![r] = "canceled"]
    /\ UNCHANGED <<cfg, stor, rstor, semaCur, g, fl, p, pc, cw, doBlob, doErr,
                   resp, fpc, fw, fi, holds, isSave, aux>>
    /\ hist' = NoCalls
\* RequestTimeout fires
Expire(r) ==
    /\ cfg.events
    /\ pc[r] = "wait" /\ ctx[r] = "alive"
    /\ ctx' = [ctx EXCEPT ![r] = "expired"]
    /\ UNCHANGED <<cfg, stor, rstor, semaCur, g, fl, p, pc, cw, doBlob, doErr,
                   resp, fpc, fw, fi, holds, isSave, aux>>
    /\ hist' = NoCalls

\* ------------------------------------------------------------ the caller
\* where the Do closure goes after the result-cache probe: Acquire when a
\* semaphore is configured, else loadStorage
AfterProbe(c) == IF c.conc > 0 THEN "acquire" ELSE "load"
\* the Do closure of r is running (it may still assign Do's named results)
ClosureRunning(r) == fpc[r] # "none"

\* suppress(ctx, "res:"+resultKey, closure) up to its select, by request r.
\* When r leads, the closure starts: in bytes mode loadResult probes the
\* result cache, and a hit it accepts is the flight's result.  h is what
\* the step has done on the storages before.
EnterRes(r, q, c, h) ==
    LET key == ResKey(q)
        fid == <<r, ResSlot>>
    IN /\ pc' = [pc EXCEPT ![r] = "wait"]
       /\ cw' = [cw EXCEPT ![r] = DoChanCall(key, fid)]
       /\ fw' = fw
       /\ IF ~Leads(key)
          THEN /\ g' = g /\ fpc' = fpc /\ hist' = h
               /\ Settle(fl)
          ELSE IF q.Meta
          THEN /\ g' = DoChanMap(key, fid) /\ hist' = h
               /\ fpc' = [fpc EXCEPT ![r] = AfterProbe(cfg)]
               /\ Settle([fl EXCEPT ![fid] = NewFlight(key)])
          ELSE \E sOuts \in StorageOutSeqs(rstor, ResultKeyOf(q), c),
                  rStat \in StatChoices(cfg), sStats \in StatSeqs(cfg) :
                LET probe == Load(sOuts, <<>>, FALSE, FALSE)
                    blob == LoadResult(cfg, probe, FALSE, rStat, sStats)
                IN /\ hist' = [NoCalls EXCEPT
                                 !.probe = Probed(r, probe, FALSE, rStat, sStats, blob)]
                   /\ IF blob # NilBlob
                      THEN /\ g' = AfterFlight(key, fid, NoErr) /\ fpc' = fpc
                           /\ Settle([fl EXCEPT ![fid] = Delivered(key, blob, NoErr, FALSE)])
                      ELSE /\ g' = DoChanMap(key, fid)
                           /\ fpc' = [fpc EXCEPT ![r] = AfterProbe(cfg)]
                           /\ Settle([fl EXCEPT ![fid] = NewFlight(key)])

\* Do returns (blob, err) and ServeHTTP answers; the closure is not running
Answer(r, q, blob, err) ==
    /\ resp' = [resp EXCEPT ![r] = Respond(q, blob, err)]
    /\ pc' = [pc EXCEPT ![r] = "done"]
    /\ cw' = [cw EXCEPT ![r] = NoFlight]
    /\ doBlob' = [doBlob EXCEPT ![r] = NilBlob]
    /\ doErr' = [doErr EXCEPT ![r] = NoErr]

\* the requests in progress are numbered in the order they arrive; a
\* sequential workload sends one when the one before is over
MayArrive(r) ==
    IF r = 1 THEN TRUE ELSE ~cfg.seq /\ pc[r - 1] # "idle"

\* the state of a request's context when Do first looks at it
CtxAtArrival(c) == IF c.events THEN {"alive", "canceled", "expired"} ELSE {"alive"}

\* ServeHTTP -> Do: the signature gate, the meta-mode probe of the result
\* cache, then suppress on "res:"+resultKey.  The request's context may have
\* fired before Do looks at it.
Request(r) ==
    /\ pc[r] = "idle"
    /\ MayArrive(r)
    /\ \E q \in cfg.urls, c \in CtxAtArrival(cfg) :
        /\ p' = [p EXCEPT ![r] = q]
        /\ ctx' = [ctx EXCEPT ![r] = c]
        /\ IF SignatureMismatch(cfg, q)
           THEN /\ Answer(r, q, NilBlob, ErrSignatureMismatch)
                /\ hist' = NoCalls
                /\ UNCHANGED <<g, fl, fpc, fw>>
           ELSE IF q.Meta
           THEN \E mOuts \in StorageMetaSeqs(rstor, ResultKeyOf(q), c),
                   rStat \in StatChoices(cfg), sStats \in StatSeqs(cfg) :
                LET probe == Load(mOuts, <<>>, FALSE, TRUE)
                    blob == LoadResult(cfg, probe, TRUE, rStat, sStats)
                    h == [NoCalls EXCEPT
                            !.probe = Probed(r, probe, TRUE, rStat, sStats, blob)]
                IN IF blob # NilBlob
                   THEN /\ Answer(r, q, blob, NoErr)
                        /\ hist' = h
                        /\ UNCHANGED <<g, fl, fpc, fw>>
                   ELSE /\ EnterRes(r, q, c, h)
                        /\ UNCHANGED <<doBlob, doErr, resp>>
           ELSE /\ EnterRes(r, q, c, NoCalls)
                /\ UNCHANGED <<doBlob, doErr, resp>>
    /\ UNCHANGED <<cfg, stor, rstor, semaCur, fi, holds, isSave, aux>>

\* the select of suppress receives the flight's result: retry after a
\* cancellation that is not this call's own, else return it
Receive(r) ==
    /\ pc[r] = "wait"
    /\ fl[cw[r]].st = "delivered"
    /\ LET res == fl[cw[r]]
       IN IF Retries(cw[r] = <<r, ResSlot>>, res)
          THEN /\ EnterRes(r, p[r], ctx[r], NoCalls)
               /\ UNCHANGED <<doBlob, doErr, resp>>
          ELSE /\ Answer(r, p[r], res.val, res.err)
               /\ hist' = NoCalls
               /\ UNCHANGED <<g, fpc, fw>>
               /\ Settle(fl)
    /\ UNCHANGED <<cfg, stor, rstor, semaCur, ctx, p, fi, holds, isSave, aux>>

\* the select of suppress takes <-ctx.Done(): suppress returns
\* (nil, ctx.Err()), which Do stores in its named results
CtxDone(r) ==
    /\ pc[r] = "wait"
    /\ Fired(r)
    /\ IF ClosureRunning(r)
       THEN /\ doBlob' = [doBlob EXCEPT ![r] = NilBlob]
            /\ doErr' = [doErr EXCEPT ![r] = CtxErr(ctx[r])]
            /\ pc' = [pc EXCEPT ![r] = "ret"]
            /\ cw' = [cw EXCEPT ![r] = NoFlight]
            /\ UNCHANGED resp
       ELSE Answer(r, p[r], NilBlob, CtxErr(ctx[r]))
    /\ UNCHANGED <<g, fpc, fw>>
    /\ Settle(fl)
    /\ UNCHANGED <<cfg, stor, rstor, semaCur, ctx, p, fi, holds, isSave, aux>>
    /\ hist' = NoCalls

\* Do's return reads the named results, which its closure, still running
\* in the flight's goroutine, may have assigned in between
Return(r) ==
    /\ pc[r] = "ret"
    /\ resp' = [resp EXCEPT ![r] = Respond(p[r], doBlob[r], doErr[r])]
    /\ pc' = [pc EXCEPT ![r] = "done"]
    /\ doBlob' = IF ClosureRunning(r) THEN doBlob ELSE [doBlob EXCEPT ![r] = NilBlob]
    /\ doErr' = IF ClosureRunning(r) THEN doErr ELSE [doErr EXCEPT ![r] = NoErr]
    /\ UNCHANGED <<cfg, stor, rstor, semaCur, g, fl, ctx, p, cw,
                   fpc, fw, fi, holds, isSave, aux>>
    /\ hist' = NoCalls

\* ServeHTTP has returned and every goroutine of r has ended: r stands for
\* the next request from now on
Over(r) ==
    /\ pc[r] = "done" /\ fpc[r] = "none"
    /\ \A s \in Slots : fl[<<r, s>>] = IdleFlight
Close(r) ==
    /\ Over(r)
    /\ pc' = [pc EXCEPT ![r] = "idle"]
    /\ p' = [p EXCEPT ![r] = NoParams]
    /\ ctx' = [ctx EXCEPT ![r] = "alive"]
    /\ resp' = [resp EXCEPT ![r] = NoResp]
    /\ UNCHANGED <<cfg, stor, rstor, semaCur, g, fl, cw, doBlob, doErr,
                   fpc, fw, fi, holds, isSave, aux>>
    /\ hist' = NoCalls

\* -------------------------------------------------------- the Do closure
\* a Release that runs whether or not Acquire succeeded
ReleaseAlways(r) == semaCur - 1
\* a closure that keeps its permit
ReleaseNever(r) == semaCur
\* the deferred app.sema.Release(1)
Release(r) == IF holds[r] THEN semaCur - 1 ELSE semaCur

\* The closure of r returns (b, e), the values of Do's blob and err as it
\* leaves them: the deferred Release runs, suppress's wrapper forgets the key
\* on a cancellation error, and doCall hands the result to the subscribers.
ClosureEnd(r, b, e) ==
    LET fid == <<r, ResSlot>>
        key == fl[fid].key
    IN /\ semaCur' = Release(r)
       /\ holds' = [holds EXCEPT ![r] = FALSE]
       /\ g' = AfterFlight(key, fid, e)
       /\ fpc' = [fpc EXCEPT ![r] = "none"]
       /\ fw' = [fw EXCEPT ![r] = NoFlight]
       /\ fi' = [fi EXCEPT ![r] = 0]
       /\ aux' = [aux EXCEPT ![r] = 0]
       /\ isSave' = [isSave EXCEPT ![r] = FALSE]
       /\ doBlob' = [doBlob EXCEPT ![r] = IF pc[r] = "ret" THEN b ELSE NilBlob]
       /\ doErr' = [doErr EXCEPT ![r] = IF pc[r] = "ret" THEN e ELSE NoErr]
       /\ Settle([fl EXCEPT ![fid] = Delivered(key, b, e, FALSE)])

\* app.sema.Acquire(ctx, 1) and the defer of Release; a fired context makes
\* Acquire fail with ctx.Err(), which the closure returns
Acquired(n) == n + 1
ResAcquire(r) ==
    /\ fpc[r] = "acquire"
    /\ \/ /\ semaCur < cfg.conc
          /\ semaCur' = Acquired(semaCur)
          /\ holds' = [holds EXCEPT ![r] = TRUE]
          /\ fpc' = [fpc EXCEPT ![r] = "load"]
          /\ UNCHANGED <<g, fl, doBlob, doErr, fw, fi, aux, isSave>>
       \/ /\ Fired(r)
          /\ UNCHANGED <<pc, cw>>
          /\ ClosureEnd(r, doBlob[r], CtxErr(ctx[r]))
    /\ UNCHANGED <<cfg, stor, rstor, ctx, p, pc, cw, resp>>
    /\ hist' = NoCalls

\* loadStorage: suppress(r.Context(), "img:"+key, ...) up to its select, by
\* the Do closure of r for its slot
EnterImg(r, image, slot) ==
    LET key == ImgKey(image)
        fid == <<r, slot>>
    IN /\ fw' = [fw EXCEPT ![r] = DoChanCall(key, fid)]
       /\ g' = DoChanMap(key, fid)
       /\ Settle(IF Leads(key) THEN [fl EXCEPT ![fid] = NewFlight(key)] ELSE fl)

\* blob, isSave, err = app.loadStorage(r, p.Image): entering
ResLoad(r) ==
    /\ fpc[r] = "load"
    /\ fpc' = [fpc EXCEPT ![r] = "waitImg"]
    /\ UNCHANGED <<pc, cw>>
    /\ EnterImg(r, p[r].Image, MainSlot)
    /\ UNCHANGED <<cfg, stor, rstor, semaCur, ctx, p, doBlob, doErr,
                   resp, fi, holds, isSave, aux>>
    /\ hist' = NoCalls

\* where the closure goes with a loaded source: the first processor, or past
\* the loop when none is configured
ChainStart(c) == IF c.nProc > 0 THEN "proc" ELSE "finish"

\* loadStorage returned (b, save, err) to the closure
Loaded(r, b, save, err) ==
    IF err # NoErr \/ isBlobEmpty(b)
    THEN ClosureEnd(r, b, err)
    ELSE /\ doBlob' = [doBlob EXCEPT ![r] = b]
         /\ doErr' = [doErr EXCEPT ![r] = err]
         /\ isSave' = [isSave EXCEPT ![r] = save]
         /\ fpc' = [fpc EXCEPT ![r] = ChainStart(cfg)]
         /\ fi' = [fi EXCEPT ![r] = IF cfg.nProc > 0 THEN 1 ELSE 0]
         /\ fw' = [fw EXCEPT ![r] = NoFlight]
         /\ UNCHANGED <<semaCur, holds, g, aux>>
         /\ Settle(fl)

\* an isSave that every caller of a flight that saved would see
SavedByFlight(r, fid) == fl[fid].saved
\* isSave as loadStorage returns it: set only by the closure this call led
SavedBy(r, fid) == fid = <<r, MainSlot>> /\ fl[fid].saved

\* the select of the "img:" suppress receives the result (source image)
ResImgReceive(r) ==
    /\ fpc[r] = "waitImg"
    /\ fl[fw[r]].st = "delivered"
    /\ UNCHANGED <<pc, cw>>
    /\ LET res == fl[fw[r]]
       IN IF Retries(fw[r] = <<r, MainSlot>>, res)
          THEN /\ UNCHANGED <<doBlob, doErr, isSave, fi, semaCur, holds, fpc, aux>>
               /\ EnterImg(r, p[r].Image, MainSlot)
          ELSE Loaded(r, res.val, SavedBy(r, fw[r]), res.err)
    /\ UNCHANGED <<cfg, stor, rstor, ctx, p, resp>>
    /\ hist' = [NoCalls EXCEPT
                  !.got = IF Retries(fw[r] = <<r, MainSlot>>, fl[fw[r]]) THEN NoGot
                          ELSE [req |-> r, led |-> fw[r] = <<r, MainSlot>>,
                                saved |-> fl[fw[r]].saved]]

\* the select of the "img:" suppress takes <-ctx.Done() (source image)
ResImgCtxDone(r) ==
    /\ fpc[r] = "waitImg"
    /\ Fired(r)
    /\ UNCHANGED <<pc, cw>>
    /\ Loaded(r, NilBlob, SavedBy(r, fw[r]), CtxErr(ctx[r]))
    /\ UNCHANGED <<cfg, stor, rstor, ctx, p, resp>>
    /\ hist' = NoCalls

\* What Process can return (after checkBlob): a processed blob, a pass with
\* or without a blob, an error, the process timeout, or the context's
\* cancellation once the request context is canceled.
\* a processor that never looks at the meta flag of its Params
ProcKindBytes(q) == "proc"
\* the output of Process(ctx, blob, p, loadFn) depends on the Params it is
\* given: the closure hands it the Params of the Do call that leads
ProcKind(q) == IF q.Meta THEN "procmeta" ELSE "proc"
ProcessOuts(r) ==
    {Out(Blob(ProcKind(p[r]), p[r].Image), NoErr), Out(NilBlob, ErrPass),
     Out(Blob("pass", p[r].Image), ErrPass), Out(NilBlob, ErrInternal),
     Out(NilBlob, DeadlineExceeded)}
    \cup (IF ctx[r] = "canceled" THEN {Out(NilBlob, Canceled)} ELSE {})

\* a processor calls loadFn(image): loadStorage on the request of Do
ProcLoad(r) ==
    /\ fpc[r] = "proc"
    /\ aux[r] < cfg.nAux
    /\ aux' = [aux EXCEPT ![r] = aux[r] + 1]
    /\ fpc' = [fpc EXCEPT ![r] = "waitAux"]
    /\ UNCHANGED <<pc, cw>>
    /\ \E k \in Images : EnterImg(r, k, MainSlot + aux[r] + 1)
    /\ UNCHANGED <<cfg, stor, rstor, semaCur, ctx, p, doBlob, doErr,
                   resp, fi, holds, isSave>>
    /\ hist' = NoCalls

\* loadFn's suppress receives the result and hands it to the processor
AuxReceive(r) ==
    /\ fpc[r] = "waitAux"
    /\ fl[fw[r]].st = "delivered"
    /\ UNCHANGED <<pc, cw>>
    /\ IF Retries(fw[r] = <<r, MainSlot + aux[r]>>, fl[fw[r]])
       THEN /\ UNCHANGED fpc
            /\ EnterImg(r, fl[fw[r]].key[2], MainSlot + aux[r])
       ELSE /\ fpc' = [fpc EXCEPT ![r] = "proc"]
            /\ fw' = [fw EXCEPT ![r] = NoFlight]
            /\ UNCHANGED g
            /\ Settle(fl)
    /\ UNCHANGED <<cfg, stor, rstor, semaCur, ctx, p, doBlob, doErr,
                   resp, fi, holds, isSave, aux>>
    /\ hist' = NoCalls

\* loadFn's suppress takes <-ctx.Done(): the processor gets (nil, ctx.Err())
AuxCtxDone(r) ==
    /\ fpc[r] = "waitAux"
    /\ Fired(r)
    /\ fpc' = [fpc EXCEPT ![r] = "proc"]
    /\ fw' = [fw EXCEPT ![r] = NoFlight]
    /\ UNCHANGED <<pc, cw, g>>
    /\ Settle(fl)
    /\ UNCHANGED <<cfg, stor, rstor, semaCur, ctx, p, doBlob,
                   doErr, resp, fi, holds, isSave, aux>>
    /\ hist' = NoCalls

\* a loop that ends at the first processor that does not succeed
NextProcStop(r) == "finish"
\* one iteration of the loop over app.Processors: processor fi returned o
NextProc(r) == IF fi[r] < cfg.nProc THEN "proc" ELSE "finish"
ProcReturn(r) ==
    /\ fpc[r] = "proc"
    /\ \E o \in ProcessOuts(r) :
      /\ hist' = [NoCalls EXCEPT !.proc = [ran |-> TRUE, req |-> r, i |-> fi[r],
                                           inp |-> doBlob[r], out |-> o]]
      /\
        IF o.err = NoErr
        THEN /\ doBlob' = [doBlob EXCEPT ![r] = o.blob]
             /\ doErr' = [doErr EXCEPT ![r] = NoErr]
             /\ fpc' = [fpc EXCEPT ![r] = "finish"]
             /\ UNCHANGED fi
        ELSE IF o.err = ErrPass
        THEN /\ doBlob' = [doBlob EXCEPT ![r] = IF isBlobEmpty(o.blob) THEN @ ELSE o.blob]
             /\ fpc' = [fpc EXCEPT ![r] = NextProc(r)]
             /\ fi' = [fi EXCEPT ![r] = @ + 1]
             /\ UNCHANGED doErr
        ELSE /\ doErr' = [doErr EXCEPT ![r] = o.err]
             /\ IF o.err = DeadlineExceeded
                THEN fpc' = [fpc EXCEPT ![r] = "finish"] /\ UNCHANGED fi
                ELSE fpc' = [fpc EXCEPT ![r] = NextProc(r)] /\ fi' = [fi EXCEPT ![r] = @ + 1]
             /\ UNCHANGED doBlob
    /\ UNCHANGED <<cfg, stor, rstor, semaCur, g, fl, ctx, p, pc, cw, resp, fw,
                   holds, isSave, aux>>

\* save and del under a context of their own that never fires
ProcCtxDetached(r) == "alive"
\* the context the closure passes to save and del: the ProcessTimeout child
\* of the flight's context, expired once a processor hit the deadline
ProcCtx(r) ==
    IF Fired(r) THEN ctx[r]
    ELSE IF doErr[r] = DeadlineExceeded THEN "expired" ELSE "alive"

\* a result saved whatever the chain's error
SavesResultAlways(c, err) == c.nRes > 0
\* the conditions of the two statements after the loop
SavesResult(c, err) == err = NoErr /\ c.nRes > 0
DeletesSource(err, save) == err # NoErr /\ save

\* after the loop: save the result, or delete the saved source, and return
ResFinish(r) ==
    /\ fpc[r] = "finish"
    /\ \E ok \in PutOks(ProcCtx(r)) :
        /\ rstor' = IF SavesResult(cfg, doErr[r])
                    THEN SaveAll(rstor, ResultKeyOf(p[r]), doBlob[r], ok) ELSE rstor
        /\ stor' = IF DeletesSource(doErr[r], isSave[r])
                   THEN DelAll(stor, p[r].Image, ok) ELSE stor
    /\ hist' = [NoCalls EXCEPT !.rput = IF SavesResult(cfg, doErr[r])
                                         THEN doBlob[r].kind ELSE "none",
                                !.del = IF DeletesSource(doErr[r], isSave[r])
                                        THEN Len(stor) ELSE 0,
                                !.sctx = IF \/ SavesResult(cfg, doErr[r])
                                            \/ DeletesSource(doErr[r], isSave[r])
                                         THEN ProcCtx(r) ELSE "none"]
    /\ UNCHANGED <<pc, cw>>
    /\ ClosureEnd(r, doBlob[r], doErr[r])
    /\ UNCHANGED <<cfg, ctx, p, resp>>

\* ------------------------------------------------ the loadStorage closure
\* the flight function of "img:"+key led by r at slot s (load, then the
\* save-back), suppress's wrapper and doCall's delivery
ImgRun(r, s) ==
    /\ s # ResSlot
    /\ fl[<<r, s>>].st = "running"
    /\ UNCHANGED <<pc, cw, fpc, fw>>
    /\ LET fid == <<r, s>>
           key == fl[fid].key
           k == key[2]
       IN \E sOuts \in StorageOutSeqs(stor, k, ctx[r]),
             lOuts \in LoaderOutSeqs(cfg.nLoad, k, ctx[r]),
             ok \in PutOks(ctx[r]) :
           LET res == Load(sOuts, lOuts, k = EmptyImage, FALSE)
               save == ShouldSave(cfg, res)
           IN /\ stor' = IF save THEN SaveAll(stor, k, res.blob, ok) ELSE stor
              /\ g' = AfterFlight(key, fid, res.err)
              /\ hist' = [NoCalls EXCEPT
                            !.load = [ran |-> TRUE, origin |-> res.origin,
                                      clean |-> res.err = NoErr /\ ~isBlobEmpty(res.blob),
                                      puts |-> IF save THEN Len(stor) ELSE 0,
                                      key |-> k, err |-> res.err,
                                      calls |-> res.calls]]
              /\ Settle([fl EXCEPT ![fid] = Delivered(key, res.blob, res.err, save)])
    /\ UNCHANGED <<cfg, rstor, semaCur, ctx, p, doBlob, doErr, resp,
                   fi, holds, isSave, aux>>

\* ------------------------------------------------------------------ Next
Next ==
    \E r \in Reqs :
        \/ Request(r)
        \/ Cancel(r)
        \/ Expire(r)
        \/ Receive(r)
        \/ CtxDone(r)
        \/ Return(r)
        \/ Close(r)
        \/ ResAcquire(r)
        \/ ResLoad(r)
        \/ ResImgReceive(r)
        \/ ResImgCtxDone(r)
        \/ ProcLoad(r)
        \/ AuxReceive(r)
        \/ AuxCtxDone(r)
        \/ ProcReturn(r)
        \/ ResFinish(r)
        \/ \E s \in Slots : ImgRun(r, s)

Spec == Init /\ [][Next]_vars

\* The goroutines are scheduled: a select with a ready case proceeds, a
\* collaborator that was called returns, and the semaphore, which serves its
\* waiters in order, lets every waiter in after finitely many releases.
\* Clients are free to send nothing more and never to go away.
Fairness ==
    \A r \in Reqs :
        /\ WF_vars(Receive(r)) /\ WF_vars(CtxDone(r)) /\ WF_vars(Return(r))
        /\ SF_vars(ResAcquire(r)) /\ WF_vars(ResLoad(r))
        /\ WF_vars(ResImgReceive(r)) /\ WF_vars(ResImgCtxDone(r))
        /\ WF_vars(AuxReceive(r)) /\ WF_vars(AuxCtxDone(r))
        /\ WF_vars(ProcReturn(r)) /\ WF_vars(ResFinish(r))
        /\ \A s \in Slots : WF_vars(ImgRun(r, s))
\* the engines whose processors call loadFn, under fair scheduling
FairInit == Init /\ cfg \in {CfgAux, CfgLoadFn}
FairSpec == FairInit /\ [][Next]_vars /\ Fairness

\* Finitely many requests: each of the NReq callers sends one request and no
\* other follows it.  The engines: callers that share flights and contend for
\* the one permit while their contexts fire, and processors that call loadFn.
LiveInit == Init /\ cfg \in {CfgAux, CfgGate, CfgLoadFn}
Serve ==
    \E r \in Reqs :
        \/ Request(r)
        \/ Cancel(r)
        \/ Expire(r)
        \/ Receive(r)
        \/ CtxDone(r)
        \/ Return(r)
        \/ ResAcquire(r)
        \/ ResLoad(r)
        \/ ResImgReceive(r)
        \/ ResImgCtxDone(r)
        \/ ProcLoad(r)
        \/ AuxReceive(r)
        \/ AuxCtxDone(r)
        \/ ProcReturn(r)
        \/ ResFinish(r)
        \/ \E s \in Slots : ImgRun(r, s)
LiveSpec == LiveInit /\ [][Serve]_vars /\ Fairness

\* ------------------------------------------- Imagor.load on its own
\* the bytes handler h serves; h is its place among storages and loaders
BytesOf(h) == Blob("src", h)
\* What Get of handler h can return (after checkBlob), whatever the handler
\* is: bytes, bytes together with an error, an error, a pass, or nothing.
HandlerOuts(h) ==
    {Out(BytesOf(h), NoErr), Out(BytesOf(h), ErrInternal),
     Out(NilBlob, ErrInternal), Out(NilBlob, DeadlineExceeded),
     Out(NilBlob, ErrPass), Out(NilBlob, NoErr)}
\* the Get results of n handlers, the first of which is handler base + 1
HandlerSeqs(n, base) ==
    { f \in [1..n -> UNION { HandlerOuts(base + i) : i \in 1..n }] :
        \A i \in 1..n : f[i] \in HandlerOuts(base + i) }
\* one call app.load(r, storages, loaders, key, false) with any lists of up
\* to MaxHandlers storages and loaders that return anything Get can return
LoadCall ==
    /\ ~hist.call.ran
    /\ \E ns, nl \in 0..MaxHandlers, emptyKey \in BOOLEAN :
        \E sOuts \in HandlerSeqs(ns, 0), lOuts \in HandlerSeqs(nl, ns) :
            hist' = [NoCalls EXCEPT
                       !.call = [ran |-> TRUE, sOuts |-> sOuts, lOuts |-> lOuts,
                                 emptyKey |-> emptyKey,
                                 res |-> Load(sOuts, lOuts, emptyKey, FALSE)]]
    /\ UNCHANGED <<cfg, stor, rstor, semaCur, g, fl, ctx, p, pc, cw, doBlob,
                   doErr, resp, fpc, fw, fi, holds, isSave, aux>>
LoadInit == Init /\ cfg = CfgBare
LoadSpec == LoadInit /\ [][LoadCall]_vars

\* ======================================================================
\* Properties
\* ======================================================================
\* request r took a step of its caller goroutine
CallerStep(r) == pc'[r] # pc[r] \/ cw'[r] # cw[r]
\* two requests with the same result key
SameResult(r1, r2) == r1 # r2 /\ ResKey(p[r1]) = ResKey(p[r2])

\* ---------------------------------------------------------------- C1
OneFlightPerKey ==
    /\ \A f1, f2 \in FlightIds :
        (f1 # f2 /\ fl[f1].st = "running" /\ fl[f2].st = "running")
            => fl[f1].key # fl[f2].key
    /\ \A f \in FlightIds : fl[f].st = "running" => g[fl[f].key] = f
JoinedGetOutcome ==
    \A r \in Reqs :
        (pc[r] = "wait" /\ pc'[r] = "done" /\ ctx[r] = "alive")
            => /\ fl[cw[r]].st = "delivered"
               /\ resp'[r].blob = fl[cw[r]].val
               /\ resp'[r].err = fl[cw[r]].err
\* C1: for every key at most one call of fn is in flight at any time (and
\* it is the one the singleflight map holds), and a caller whose context is
\* alive leaves suppress with the value and error of the flight it joined.
C1_Coalesced == []OneFlightPerKey /\ [][JoinedGetOutcome]_vars
\* the leader has answered with the flight's outcome while a follower still
\* holds the delivered result of that same flight
C1_Witness ==
    \E r1, r2 \in Reqs :
        /\ r1 # r2 /\ pc[r1] = "done" /\ resp[r1].status = 200
        /\ pc[r2] = "wait" /\ cw[r2] = <<r1, ResSlot>>
        /\ fl[cw[r2]].st = "delivered"
        /\ fl[cw[r2]].val = resp[r1].blob /\ ~isBlobEmpty(resp[r1].blob)

\* ---------------------------------------------------------------- C2
\* C2: two requests with the same result key never run the Do closure
\* (load, processors, save) at the same time, and a request that waits on
\* another request's flight runs no closure of its own.
C2_ChainOnce ==
    /\ \A r1, r2 \in Reqs :
        (SameResult(r1, r2) /\ fpc[r1] # "none") => fpc[r2] = "none"
    /\ \A r \in Reqs :
        (pc[r] = "wait" /\ cw[r] # <<r, ResSlot>>) => fpc[r] = "none"
\* a processor runs for one request while another request with the same
\* result key waits on that flight
C2_Witness ==
    \E r1, r2 \in Reqs :
        /\ SameResult(r1, r2) /\ fpc[r1] = "proc"
        /\ pc[r2] = "wait" /\ cw[r2] = <<r1, ResSlot>>

\* ---------------------------------------------------------------- C3
ForgottenFirst ==
    \A f \in FlightIds :
        (fl[f].st = "delivered" /\ fl[f].err = Canceled) => g[fl[f].key] # f
FollowerRetries ==
    \A r \in Reqs :
        (/\ pc[r] = "wait" /\ cw[r] # <<r, ResSlot>>
         /\ fl[cw[r]].st = "delivered" /\ fl[cw[r]].err = Canceled
         /\ CallerStep(r))
        => \/ /\ pc'[r] = "wait" /\ cw'[r] # cw[r]
              /\ \/ cw'[r] = <<r, ResSlot>>
                 \/ cw'[r] = g[ResKey(p[r])]
           \/ /\ ctx[r] # "alive" /\ pc'[r] = "done"
              /\ resp'[r].err = IF ctx[r] = "canceled" THEN Canceled
                                ELSE DeadlineExceeded
InnerFollowerRetries ==
    \A r \in Reqs :
        (/\ fpc[r] = "waitImg" /\ fw[r] # <<r, MainSlot>>
         /\ fl[fw[r]].st = "delivered" /\ fl[fw[r]].err = Canceled
         /\ ctx[r] = "alive"
         /\ (fpc'[r] # fpc[r] \/ fw'[r] # fw[r]))
        => /\ fpc'[r] = "waitImg" /\ fw'[r] # fw[r]
           /\ \/ fw'[r] = <<r, MainSlot>>
              \/ fw'[r] = g[ImgKey(p[r].Image)]
\* C3: a flight that delivered a cancellation error is no longer in the
\* singleflight map when anyone sees its result; a follower that sees it
\* never returns it: it calls suppress again, leading a new flight or joining
\* the one now in the map (or, its own context having fired meanwhile, leaves
\* with its own context's error); the same holds for the Do closure that
\* follows another request's source load.
C3_CancelRetry ==
    []ForgottenFirst /\ [][FollowerRetries /\ InnerFollowerRetries]_vars
\* a follower with a live context faces the cancellation error of a leader
\* whose key has been forgotten
C3_Witness ==
    \E r1, r2 \in Reqs :
        /\ r1 # r2 /\ ctx[r1] = "canceled" /\ ctx[r2] = "alive"
        /\ pc[r2] = "wait" /\ cw[r2] = <<r1, ResSlot>>
        /\ fl[cw[r2]].st = "delivered" /\ fl[cw[r2]].err = Canceled
        /\ g[ResKey(p[r2])] = NoFlight

\* ---------------------------------------------------------------- C4
\* the URL's hash is not the HMAC of its path, and the engine or the URL is
\* not unsafe
BadSignature(q) ==
    ~(cfg.Unsafe /\ q.Unsafe) /\ q.Hash # Sign(Secret, q.Path)
RejectedAtOnce ==
    \A r \in Reqs :
        (pc[r] = "idle" /\ pc'[r] # "idle" /\ BadSignature(p'[r]))
            => /\ pc'[r] = "done"
               /\ resp'[r].err = ErrSignatureMismatch
               /\ resp'[r].status = 403 /\ resp'[r].body = "error"
               /\ UNCHANGED <<stor, rstor, semaCur, g, fl, fpc, fw>>
               /\ hist' = NoCalls
OnlyBadRejected ==
    \A r \in Reqs :
        resp[r].err = ErrSignatureMismatch => (pc[r] = "done" /\ BadSignature(p[r]))
\* C4: a request whose hash does not match, unless engine and URL are both
\* unsafe, is answered 403 with the error as body in the very step it
\* arrives, with no storage, loader, processor, flight or permit touched; no
\* other request gets ErrSignatureMismatch.
C4_SignatureGate == []OnlyBadRejected /\ [][RejectedAtOnce]_vars
\* an /unsafe/ URL rejected by an engine that is not unsafe
C4_Witness ==
    \E r \in Reqs :
        /\ ~cfg.Unsafe /\ p[r].Unsafe /\ pc[r] = "done"
        /\ resp[r].status = 403 /\ resp[r].err = ErrSignatureMismatch

\* ---------------------------------------------------------------- C5
SaveIffLoaderServed ==
    hist.load.ran =>
        hist.load.puts = (IF hist.load.clean /\ hist.load.origin = 0
                          THEN cfg.nStor ELSE 0)
\* a source load led by a live request: a stored image is read back and
\* not saved again, an image no storage has is saved once it is loaded
ReadAfterSave ==
    \A f \in FlightIds :
        (/\ f[2] # ResSlot /\ fl[f].st = "running" /\ hist'.load.ran
         /\ fl'[f].st # "running" /\ ctx[f[1]] = "alive" /\ cfg.nStor > 0)
        => LET k == fl[f].key[2]
           IN IF \E i \in 1..cfg.nStor : stor[i][k] # NilBlob
              THEN hist'.load.origin # 0 /\ hist'.load.puts = 0 /\ stor' = stor
              ELSE hist'.load.clean =>
                     /\ hist'.load.puts = cfg.nStor
                     /\ \A i \in 1..cfg.nStor : stor'[i][k] # NilBlob
\* without processors, and while no request context fires, nothing deletes
\* or replaces a saved source
SavedStays ==
    (cfg.nProc = 0 /\ \A r \in Reqs : ctx[r] = "alive" /\ ctx'[r] = "alive") =>
        \A i \in 1..cfg.nStor : \A k \in Images :
            stor[i][k] # NilBlob => stor'[i][k] = stor[i][k]
\* C5: a source load Puts once to each configured storage exactly when the
\* blob came from a loader, is non-empty and carries no error, and makes no
\* Put when a storage served it; so of the sequential requests for an image
\* only a loader provides the first load saves it and every later one reads
\* it from the storage without saving.
C5_SaveOnce ==
    []SaveIffLoaderServed /\ [][ReadAfterSave]_vars /\ [][SavedStays]_vars
\* a later request of TestWithLoadersStorages has just been served by the
\* storage, without a Put
C5_Witness ==
    /\ cfg = CfgStore /\ hist.load.ran /\ hist.load.clean
    /\ hist.load.origin # 0 /\ hist.load.puts = 0

\* ---------------------------------------------------------------- C6
\* C6: a Put to the result storages only ever carries the blob a processor
\* returned without error, never the source blob as loaded or as passed on
\* with ErrPass.
C6_OnlyProcessedCached == hist.rput \in {"none", "proc", "procmeta"}

\* ---------------------------------------------------------------- C7
\* C7: under fair scheduling a loadFn call made from inside Process, for
\* the key being processed or any other, returns, the Do closure around it
\* finishes and the request is answered.
C7_LoadFnReturns ==
    \A r \in Reqs :
        /\ (fpc[r] = "waitAux") ~> (fpc[r] # "waitAux")
        /\ (fpc[r] # "none") ~> (fpc[r] = "none")
        /\ (pc[r] = "wait") ~> (pc[r] = "done")
\* loadFn was called for the very image being processed and its flight has
\* delivered
C7_Witness ==
    \E r \in Reqs :
        /\ fpc[r] = "waitAux" /\ fl[fw[r]].st = "delivered"
        /\ fl[fw[r]].key = ImgKey(p[r].Image) /\ fw[r] = <<r, MainSlot + 1>>

\* ---------------------------------------------------------------- C8
PermitsMatch ==
    /\ semaCur = Cardinality({r \in Reqs : holds[r]})
    /\ semaCur <= cfg.conc
    /\ \A r \in Reqs : holds[r] => fpc[r] \notin {"none", "acquire"}
FailedAcquireKeepsPermits ==
    \A r \in Reqs :
        (fpc[r] = "acquire" /\ fpc'[r] = "none")
            => /\ ctx[r] # "alive" /\ semaCur' = semaCur
               /\ pc[r] = "wait" =>
                    fl'[<<r, ResSlot>>].err =
                        IF ctx[r] = "canceled" THEN Canceled ELSE DeadlineExceeded
ReleasedOnExit ==
    \A r \in Reqs :
        (holds[r] /\ fpc'[r] = "none") => (semaCur' = semaCur - 1 /\ ~holds'[r])
\* C8: the permits in use are exactly those of the Do closures past Acquire,
\* never more than ProcessConcurrency; a closure that leaves gives its permit
\* back, on every path; an Acquire that fails on a fired context returns the
\* context's error and gives nothing back.  So no permit is in use when no
\* closure runs.
C8_Permits ==
    []PermitsMatch /\ [][FailedAcquireKeepsPermits /\ ReleasedOnExit]_vars
\* the only permit is taken and another request's closure waits in Acquire
C8_Witness ==
    \E r1, r2 \in Reqs :
        /\ r1 # r2 /\ holds[r1] /\ semaCur = cfg.conc
        /\ fpc[r2] = "acquire"

\* ---------------------------------------------------------------- C9
CtxDoneReady ==
    \A r \in Reqs : (pc[r] = "wait" /\ ctx[r] # "alive") => ENABLED CtxDone(r)
LeavesWithCtxErr ==
    \A r \in Reqs :
        (pc[r] = "wait" /\ fl[cw[r]].st = "running" /\ pc'[r] # "wait")
            => /\ ctx[r] # "alive"
               /\ LET e == IF ctx[r] = "canceled" THEN Canceled ELSE DeadlineExceeded
                  IN IF pc'[r] = "ret"
                     THEN doBlob'[r] = NilBlob /\ doErr'[r] = e
                     ELSE resp'[r].blob = NilBlob /\ resp'[r].err = e
\* C9: a caller waiting in suppress whose context has fired can return
\* whatever the flight is doing, and a caller that leaves suppress while the
\* flight is still running leaves with (nil, ctx.Err()).
C9_CtxReturns == []CtxDoneReady /\ [][LeavesWithCtxErr]_vars
\* suppress has returned (nil, DeadlineExceeded) to Do while the flight it
\* waited on is still running
C9_Witness ==
    \E r \in Reqs :
        /\ pc[r] = "ret" /\ ctx[r] = "expired"
        /\ doBlob[r] = NilBlob /\ doErr[r] = DeadlineExceeded
        /\ fl[<<r, ResSlot>>].st = "running" /\ fpc[r] # "none"

\* --------------------------------------------------------------- C10
\* C10 as stated: a request that is answered in the step it arrives gets
\* 499 if and only if its context was canceled by then.
C10_Status499Iff ==
    [][\A r \in Reqs :
         (pc[r] = "idle" /\ pc'[r] = "done")
            => (resp'[r].status = 499 <=> ctx'[r] = "canceled")]_vars
\* C10, amended: a response is 499 only if the request's own context was
\* canceled, and then it has no body; neither another request's
\* cancellation nor a deadline answers 499.
C10_OnlyOwnCancel ==
    \A r \in Reqs :
        (pc[r] = "done" /\ resp[r].status = 499)
            => (ctx[r] = "canceled" /\ resp[r].body = "none")
\* the leader was canceled and answered 499; the follower, its context
\* alive, answered 200
C10_Witness ==
    \E r1, r2 \in Reqs :
        /\ SameResult(r1, r2) /\ pc[r1] = "done" /\ pc[r2] = "done"
        /\ resp[r1].status = 499 /\ ctx[r1] = "canceled"
        /\ ctx[r2] = "alive" /\ resp[r2].status = 200

EmptyKeyNotFound ==
    (hist.load.ran /\ hist.load.key = EmptyImage)
        => /\ hist.load.err = ErrNotFound /\ hist.load.calls = 0
           /\ ~hist.load.clean /\ hist.load.puts = 0
NoErrorMeansBytes ==
    (hist.load.ran /\ hist.load.err = NoErr) => hist.load.clean
NoHandlersNotFound ==
    (hist.load.ran /\ cfg.nStor = 0 /\ cfg.nLoad = 0)
        => hist.load.err = ErrNotFound /\ hist.load.calls = 0
BareRequestNotFound ==
    \A r \in Reqs :
        (/\ pc[r] = "done" /\ ~BadSignature(p[r]) /\ ctx[r] = "alive"
         /\ cfg.nStor = 0 /\ cfg.nLoad = 0 /\ cfg.nRes = 0)
        => resp[r].err = ErrNotFound /\ resp[r].blob = NilBlob
C13_GatePassed200 ==
    \A r \in Reqs :
        (/\ pc[r] = "done" /\ ~BadSignature(p[r]) /\ ctx[r] = "alive"
         /\ cfg.nStor = 0 /\ cfg.nLoad = 0 /\ cfg.nProc = 0)
        => resp[r].status = 200

\* the Do closure of r runs its statements after the loop and returns
Finishes(r) == fpc[r] = "finish" /\ fpc'[r] = "none"

\* --------------------------------------------------------------- C14
InOrder ==
    \A r \in Reqs : fpc[r] = "proc" => fi[r] \in 1..cfg.nProc
GivenCurrentBlob ==
    hist'.proc.ran =>
        LET h == hist'.proc
        IN fpc[h.req] = "proc" /\ h.i = fi[h.req] /\ h.inp = doBlob[h.req]
PassProtocol ==
    (hist'.proc.ran /\ hist'.proc.out.err = ErrPass) =>
        LET h == hist'.proc
            r == h.req
        IN /\ doBlob'[r] = IF isBlobEmpty(h.out.blob) THEN h.inp ELSE h.out.blob
           /\ doErr'[r] = doErr[r]
           /\ IF h.i < cfg.nProc
              THEN fpc'[r] = "proc" /\ fi'[r] = h.i + 1
              ELSE fpc'[r] = "finish"
SuccessEnds ==
    (hist'.proc.ran /\ hist'.proc.out.err = NoErr) =>
        LET h == hist'.proc
            r == h.req
        IN doBlob'[r] = h.out.blob /\ doErr'[r] = NoErr /\ fpc'[r] = "finish"
FinalResult ==
    \A r \in Reqs :
        (Finishes(r) /\ pc[r] = "wait")
            => /\ fl'[<<r, ResSlot>>].st = "delivered"
               /\ fl'[<<r, ResSlot>>].val = doBlob[r]
\* C14: the processors run in configured order, each given the current
\* blob; ErrPass with a non-empty blob makes that blob the current one,
\* ErrPass with an empty blob leaves it, and either way the next processor
\* runs; the first processor that returns no error ends the loop, its blob
\* is the current one and is what the closure returns.
C14_PassThrough ==
    []InOrder /\ [][GivenCurrentBlob /\ PassProtocol /\ SuccessEnds /\ FinalResult]_vars
\* the second processor was given the blob the first one passed on with
\* ErrPass, and succeeded
C14_Witness ==
    /\ hist.proc.ran /\ hist.proc.i = 2 /\ hist.proc.inp.kind = "pass"
    /\ hist.proc.out.err = NoErr
    /\ doBlob[hist.proc.req] = hist.proc.out.blob /\ fpc[hist.proc.req] = "finish"

\* --------------------------------------------------------------- C15
TimeoutStops ==
    (hist'.proc.ran /\ hist'.proc.out.err = DeadlineExceeded) =>
        LET r == hist'.proc.req
        IN /\ fpc'[r] = "finish" /\ fi'[r] = fi[r]
           /\ doErr'[r] = DeadlineExceeded /\ doBlob'[r] = doBlob[r]
OtherErrorGoesOn ==
    (hist'.proc.ran /\ hist'.proc.out.err \notin {NoErr, ErrPass, DeadlineExceeded}) =>
        LET h == hist'.proc
            r == h.req
        IN /\ doErr'[r] = h.out.err /\ doBlob'[r] = doBlob[r]
           /\ IF h.i < cfg.nProc
              THEN fpc'[r] = "proc" /\ fi'[r] = h.i + 1
              ELSE fpc'[r] = "finish"
NoWriteOnError ==
    \A r \in Reqs :
        (Finishes(r) /\ doErr[r] # NoErr)
            => /\ hist'.rput = "none" /\ rstor' = rstor
               /\ pc[r] = "wait" => fl'[<<r, ResSlot>>].err = doErr[r]
\* C15: a processor that returns a deadline-exceeded error ends the loop at
\* once with that error in err; the closure then makes no Put to the result
\* storages and returns that error; any other error that is not ErrPass is
\* stored in err and the next processor, if any, runs.
C15_TimeoutStops ==
    [][TimeoutStops /\ OtherErrorGoesOn /\ NoWriteOnError]_vars
\* the first of two processors has just returned deadline-exceeded
C15_Witness ==
    /\ hist.proc.ran /\ hist.proc.out.err = DeadlineExceeded
    /\ hist.proc.i < cfg.nProc /\ cfg.nRes > 0
    /\ fpc[hist.proc.req] = "finish"

\* --------------------------------------------------------------- C16
\* C16: when the closure of a request whose caller still waits leaves the
\* loop with an error and its source fetch made the save-back, Delete is
\* called on every source storage; without an error or without the
\* save-back no Delete is called, and an engine without processors never
\* calls Delete; after these steps the storages still hold the image this
\* request saved only if processing did not fail.
C16_DeleteOnFailure ==
    [][\A r \in Reqs :
         Finishes(r) =>
            /\ pc[r] = "wait" =>
                 hist'.del = IF doErr[r] # NoErr /\ isSave[r] THEN cfg.nStor ELSE 0
            /\ cfg.nProc = 0 => hist'.del = 0
            /\ (/\ isSave[r] /\ pc[r] = "wait"
                /\ \E i \in 1..cfg.nStor : stor'[i][p[r].Image] # NilBlob)
               => doErr[r] = NoErr]_vars

\* --------------------------------------------------------------- C17
\* the handlers of a call in the order load consults them
Consulted(c) == c.sOuts \o c.lOuts
CleanOut(o) == ~isBlobEmpty(o.blob) /\ o.err = NoErr
\* C17: when some handler returns a non-empty blob without error, load
\* returns the blob of the first such handler in the order storages then
\* loaders, with a nil error whatever the earlier handlers returned, with
\* that storage as origin (none for a loader), and it has called the
\* handlers up to that one and no later one.
C17_FirstCleanWins ==
    LET c == hist.call
        all == Consulted(c)
    IN (c.ran /\ ~c.emptyKey /\ \E j \in DOMAIN all : CleanOut(all[j])) =>
        LET j == CHOOSE j \in DOMAIN all :
                    CleanOut(all[j]) /\ \A k \in 1..(j - 1) : ~CleanOut(all[k])
        IN /\ c.res.blob = all[j].blob /\ c.res.err = NoErr
           /\ c.res.origin = (IF j <= Len(c.sOuts) THEN j ELSE 0)
           /\ c.res.calls = j
\* a storage returned bytes with an error, the other storage an error, the
\* first loader succeeded and the second loader was not called
C17_Witness ==
    LET c == hist.call
    IN /\ c.ran /\ ~c.emptyKey /\ Len(c.sOuts) = 2 /\ Len(c.lOuts) = 2
       /\ c.sOuts[1] = Out(BytesOf(1), ErrInternal)
       /\ c.sOuts[2] = Out(NilBlob, ErrInternal)
       /\ CleanOut(c.lOuts[1]) /\ CleanOut(c.lOuts[2])
       /\ c.res.blob = BytesOf(3) /\ c.res.err = NoErr /\ c.res.origin = 0
       /\ c.res.calls = 3

\* --------------------------------------------------------------- C18
\* C18: when no handler returns a non-empty blob without error, the blob
\* load returns is that of the earliest handler that returned a non-empty
\* blob (together with an error); a later such blob does not replace it.
C18_FirstBlobKept ==
    LET c == hist.call
        all == Consulted(c)
    IN (/\ c.ran /\ ~c.emptyKey
        /\ \A j \in DOMAIN all : ~CleanOut(all[j])
        /\ \E j \in DOMAIN all : ~isBlobEmpty(all[j].blob)) =>
        LET j == CHOOSE j \in DOMAIN all :
                    /\ ~isBlobEmpty(all[j].blob)
                    /\ \A k \in 1..(j - 1) : isBlobEmpty(all[k].blob)
        IN c.res.blob = all[j].blob

\* --------------------------------------------------------------- C19
RealError(o) == o.err \notin {NoErr, ErrPass}
\* C19: when no handler yields a blob and some handler reports an error
\* other than ErrPass, load returns the last such error: a later ErrPass,
\* or a later empty result with a nil error, does not replace it.
C19_LastRealErrorWins ==
    LET c == hist.call
        all == Consulted(c)
    IN (/\ c.ran /\ ~c.emptyKey
        /\ \A j \in DOMAIN all : isBlobEmpty(all[j].blob)
        /\ \E j \in DOMAIN all : RealError(all[j])) =>
        LET j == CHOOSE j \in DOMAIN all :
                    /\ RealError(all[j])
                    /\ \A k \in (j + 1)..Len(all) : ~RealError(all[k])
        IN c.res.err = all[j].err

\* --------------------------------------------------------------- C20
\* the source stat loadResult compares with: that of the first source
\* storage whose Stat returns a stat and no error
FirstThatStats(sStats, i) ==
    StatOk(sStats[i]) /\ \A k \in 1..(i - 1) : ~StatOk(sStats[k])
FreshHit ==
    hist.probe.ran =>
        LET h == hist.probe
        IN h.accepted <=>
             \/ ~cfg.mtc
             \/ /\ StatOk(h.rStat)
                /\ \E i \in DOMAIN h.sStats :
                    /\ FirstThatStats(h.sStats, i)
                    /\ h.rStat.time >= h.sStats[i].time
AcceptedIsServed ==
    (hist.probe.ran /\ hist.probe.accepted) =>
        LET r == hist.probe.req
        IN /\ fpc[r] = "none"
           /\ IF p[r].Meta
              THEN pc[r] = "done" /\ resp[r].status = 200 /\ resp[r].body = "meta"
              ELSE /\ pc[r] = "wait" /\ fl[cw[r]].st = "delivered"
                   /\ fl[cw[r]].err = NoErr /\ ~isBlobEmpty(fl[cw[r]].val)
StaleFallsThrough ==
    (hist.probe.ran /\ ~hist.probe.accepted) =>
        LET r == hist.probe.req
        IN /\ pc[r] = "wait"
           /\ cw[r] = <<r, ResSlot>> =>
                (fpc[r] = AfterProbe(cfg) /\ fl[cw[r]].st = "running")
\* C20: with ModifiedTimeCheck a result-cache hit is accepted iff the
\* origin's Stat of the result succeeds, some source storage's Stat of the
\* image succeeds, and the result's ModifiedTime is not before that of the
\* first source storage that can stat; without the check every hit is
\* accepted.  An accepted hit is the answer; a hit that is not accepted is
\* ignored and the request goes on to the source fetch and processing.
C20_ModifiedTimeCheck == FreshHit /\ AcceptedIsServed /\ StaleFallsThrough
\* a hit judged stale: the first source storage cannot stat, the second
\* reports a source newer than the result
C20_Witness ==
    LET h == hist.probe
    IN /\ cfg.mtc /\ h.ran /\ ~h.accepted /\ StatOk(h.rStat)
       /\ Len(h.sStats) = 2 /\ ~StatOk(h.sStats[1]) /\ StatOk(h.sStats[2])
       /\ h.rStat.time < h.sStats[2].time
       /\ fpc[h.req] = "load"

\* --------------------------------------------------------------- C21
\* r1 and r2 ask for the two variants (meta/ and bytes) of the same image
Variants(r1, r2) ==
    /\ r1 # r2 /\ p[r1] # NoParams /\ p[r2] # NoParams
    /\ p[r1].Image = p[r2].Image /\ p[r1].Meta # p[r2].Meta
VariantsCoalesce ==
    \A r1, r2 \in Reqs :
        Variants(r1, r2) =>
            /\ ResKey(p[r1]) = ResKey(p[r2])
            /\ fpc[r1] # "none" => fpc[r2] = "none"
            /\ (fl[<<r1, ResSlot>>].st = "running" /\ pc[r2] = "wait"
                  /\ fl[cw[r2]].st = "running") => cw[r2] = <<r1, ResSlot>>
ProcessedAsLeaderAsked ==
    \A r \in Reqs :
        (/\ fl[<<r, ResSlot>>].st = "running"
         /\ fl'[<<r, ResSlot>>].st = "delivered"
         /\ fl'[<<r, ResSlot>>].val.kind \in {"proc", "procmeta"})
            => (fl'[<<r, ResSlot>>].val.kind = "procmeta" <=> p[r].Meta)
VariantGetsLeaders ==
    \A r, l \in Reqs :
        (/\ Variants(l, r) /\ pc[r] = "wait" /\ cw[r] = <<l, ResSlot>>
         /\ ~Fired(r) /\ pc'[r] = "done")
            => /\ resp'[r].blob = fl[cw[r]].val
               /\ resp'[r].err = fl[cw[r]].err
OneEntryForBoth ==
    \A r \in Reqs :
        (fpc[r] = "finish" /\ fpc'[r] = "none" /\ hist'.rput # "none")
            => \A i \in DOMAIN rstor :
                /\ ~Fired(r) => rstor'[i][<<ImageSeg(p[r].Image)>>] = doBlob[r]
                /\ \A k \in ResultKeys \ {<<ImageSeg(p[r].Image)>>} :
                     rstor'[i][k] = rstor[i][k]
\* C21: a meta/ request and a bytes request for the same image have the same
\* singleflight key "res:"+resultKey, so only one of them runs the closure
\* and the other waits on that flight; what the flight delivers was
\* processed under the Params of the request that leads it, the follower is
\* answered with exactly that blob and error, and the result is saved under
\* the one result key, whichever variant led.
C21_VariantsShare ==
    /\ []VariantsCoalesce
    /\ [][ProcessedAsLeaderAsked /\ VariantGetsLeaders /\ OneEntryForBoth]_vars
\* a bytes request holds the delivered result of the flight a meta request
\* led: output processed in meta mode, which is also what the result
\* storage now holds under their common key
C21_Witness ==
    \E l, r \in Reqs :
        /\ Variants(l, r) /\ p[l].Meta /\ ~p[r].Meta /\ ctx[r] = "alive"
        /\ pc[r] = "wait" /\ cw[r] = <<l, ResSlot>>
        /\ fl[cw[r]].st = "delivered" /\ fl[cw[r]].err = NoErr
        /\ fl[cw[r]].val.kind = "procmeta"
        /\ rstor[1][ResultKeyOf(p[r])] = fl[cw[r]].val

\* --------------------------------------------------------------- C22
DeadlineNotForgotten ==
    \A f \in FlightIds :
        (fl[f].st = "delivered" /\ fl[f].err = DeadlineExceeded)
            => ~fl[f].isCanceled
DeadlineHandedOn ==
    \A r \in Reqs :
        (/\ pc[r] = "wait" /\ cw[r] # <<r, ResSlot>>
         /\ fl[cw[r]].st = "delivered" /\ fl[cw[r]].err = DeadlineExceeded
         /\ CallerStep(r))
            => /\ pc'[r] = "done" /\ cw'[r] = NoFlight
               /\ fl'[<<r, ResSlot>>].st # "running"
               /\ \/ /\ resp'[r].err = DeadlineExceeded
                     /\ resp'[r].blob = fl[cw[r]].val
                  \/ /\ Fired(r) /\ resp'[r].err = CtxErr(ctx[r])
                     /\ resp'[r].blob = NilBlob
DeadlineReachesClosure ==
    \A r \in Reqs :
        (/\ fpc[r] = "waitImg" /\ fw[r] # <<r, MainSlot>>
         /\ fl[fw[r]].st = "delivered" /\ fl[fw[r]].err = DeadlineExceeded
         /\ fpc'[r] # fpc[r])
            => fl'[<<r, MainSlot>>].st # "running"
\* C22: a flight that ends with context.DeadlineExceeded is not marked
\* canceled and its key is not forgotten; a follower of it, whatever its own
\* context, starts no new flight: it returns the flight's value and the
\* deadline error (a follower whose own context has fired may leave
\* through ctx.Done() with (nil, ctx.Err()) instead).  The same holds for the
\* closures that follow an "img:" flight.
C22_DeadlineNoRetry ==
    /\ []DeadlineNotForgotten
    /\ [][DeadlineHandedOn /\ DeadlineReachesClosure]_vars
\* the leader has answered 408 and a follower whose context is alive holds
\* the delivered deadline error of the leader's flight
C22_Witness ==
    \E l, r \in Reqs :
        /\ l # r /\ pc[l] = "done" /\ resp[l].err = DeadlineExceeded
        /\ pc[r] = "wait" /\ cw[r] = <<l, ResSlot>> /\ ctx[r] = "alive"
        /\ fl[cw[r]].st = "delivered" /\ fl[cw[r]].err = DeadlineExceeded
        /\ g[fl[cw[r]].key] = NoFlight

\* --------------------------------------------------------------- C23
IsSaveOnlyToLeader ==
    LET r == hist.got.req
    IN (r # 0 /\ fpc[r] \in {"proc", "finish"})
          => isSave[r] = (hist.got.led /\ hist.got.saved)
NoDeleteWithoutIsSave ==
    \A r \in Reqs :
        (fpc[r] = "finish" /\ fpc'[r] = "none" /\ ~isSave[r])
            => hist'.del = 0 /\ stor' = stor
\* C23: loadStorage returns isSave = true only to the call whose own closure
\* ran the source fetch and made the save-back; a call that followed the
\* "img:" flight of another call gets isSave = false although that flight
\* saved the image, and a closure whose isSave is false deletes nothing
\* when its processing fails.
C23_IsSaveOwnFlight == []IsSaveOnlyToLeader /\ [][NoDeleteWithoutIsSave]_vars
\* the closure of r has just got its source image from a flight another
\* request led and that saved the image to the storage: r is about to
\* process it with isSave = false
C23_Witness ==
    \E r \in Reqs :
        /\ hist.got.req = r /\ ~hist.got.led /\ hist.got.saved
        /\ fpc[r] = "proc" /\ ~isSave[r]
        /\ stor[1][p[r].Image] = doBlob[r] /\ ~isBlobEmpty(doBlob[r])

\* --------------------------------------------------------------- C24
\* C24: when every loader, storage and processor call returns and finitely
\* many requests are sent, every call of Do returns: a caller that waits in
\* suppress, as leader, as follower or after a retry, with its closure
\* queued for the permit or not, is answered in the end.
C24_DoReturns ==
    \A r \in Reqs : (pc[r] \in {"wait", "ret"}) ~> (pc[r] = "done")
\* both requests of an engine with one permit are over: the one that was
\* canceled got 499, the other one got the image, and the permit is free
C24_Witness ==
    \E r1, r2 \in Reqs :
        /\ cfg.conc > 0 /\ r1 # r2 /\ pc[r1] = "done" /\ pc[r2] = "done"
        /\ p[r1].Image = p[r2].Image
        /\ resp[r1].status = 499 /\ ctx[r2] = "alive" /\ resp[r2].status = 200
        /\ fpc[r1] = "none" /\ fpc[r2] = "none" /\ semaCur = 0
        /\ \A f \in FlightIds : fl[f] = IdleFlight

\* --------------------------------------------------------------- C25
\* the Do closure of r returns after the statements that follow the loop
Finished(r) == fpc[r] = "finish" /\ fpc'[r] = "none"
DeleteUnderProcessCtx ==
    \A r \in Reqs :
        (Finished(r) /\ hist'.del > 0)
            => /\ hist'.del = Len(stor)
               /\ doErr[r] = DeadlineExceeded => hist'.sctx # "alive"
               /\ (doErr[r] = DeadlineExceeded /\ ~Fired(r)) => hist'.sctx = "expired"
               /\ Fired(r) => hist'.sctx = ctx[r]
               /\ hist'.sctx = "alive" =>
                    \A i \in DOMAIN stor : stor'[i][p[r].Image] = NilBlob
SaveUnderProcessCtx ==
    \A r \in Reqs :
        (Finished(r) /\ hist'.rput # "none")
            => /\ hist'.sctx = (IF Fired(r) THEN ctx[r] ELSE "alive")
               /\ hist'.sctx = "alive" =>
                    \A i \in DOMAIN rstor :
                        rstor'[i][ResultKeyOf(p[r])] = doBlob[r]
\* C25: the Delete calls after a failed chain, one per storage, get the
\* context of the processing: never a live one when the chain ended with
\* the process deadline (expired, unless the flight's own context had fired
\* before), fired when the flight's own context has fired; only under a
\* live context are the Deletes sure to remove the image.  The save of the
\* result gets the same context.
C25_ProcessScopedCtx == [][DeleteUnderProcessCtx /\ SaveUnderProcessCtx]_vars
\* the processor of a request whose own context is alive hit the process
\* deadline: Delete was called under the expired context, failed, and the
\* storage still holds the image saved before
C25_Witness ==
    \E r \in Reqs :
        /\ hist.del > 0 /\ hist.sctx = "expired" /\ ctx[r] = "alive"
        /\ pc[r] = "wait" /\ cw[r] = <<r, ResSlot>>
        /\ fl[cw[r]].st = "delivered" /\ fl[cw[r]].err = DeadlineExceeded
        /\ ~isBlobEmpty(stor[1][p[r].Image])

\* --------------------------------------------------------------- C26
\* C26: a leader whose context fired while its closure was still running
\* is answered with exactly (nil, ctx.Err()): between suppress's return and
\* Do's return nothing changes Do's blob and err.
C26_CtxPairKept ==
    \A r \in Reqs :
        /\ pc[r] = "ret" => (doBlob[r] = NilBlob /\ doErr[r] = CtxErr(ctx[r]))
        /\ (pc[r] = "done" /\ Fired(r) /\ ClosureRunning(r))
              => resp[r] = Respond(p[r], NilBlob, CtxErr(ctx[r]))

====
